---- MODULE Spec2Model ----
(***************************************************************************)
(* FastRBTree (src/RBT-AVLT/src/rbTreeFast.rs) with the shared read-only  *)
(* contract of src/RBT-AVLT/src/commonTrait.rs.                            *)
(*                                                                         *)
(* The nodes are Rc<RefCell<TreeNode<T>>> cells.  The model keeps them in  *)
(* a heap: a sequence of node records, a handle being an index into the    *)
(* sequence and None the index 0.  Every primitive mutates the cells in    *)
(* place, in the order of the statements of the source, and returns the    *)
(* handle the source returns.  An unwrap() of None panics: a primitive     *)
(* yields a result record whose ok field is FALSE and the callers pass     *)
(* that on.  Every RefCell borrow of the source is a temporary of one      *)
(* statement on one cell, and the right-hand side of an assignment is      *)
(* evaluated before the assignee is borrowed mutably.                      *)
(***************************************************************************)
EXTENDS Integers, Sequences, FiniteSets, TLC

\* ------------------------------------------------------------------ bounds
\* keys of the free runs are 0..MaxKey
MaxKey == 4

Keys == 0..MaxKey

\* the ordered runs insert 0..OrderedSize-1
OrderedSize == 7

\* and make at most MaxCalls calls on the tree built
MaxCalls == 3

\* ------------------------------------------------------------ the node cell
None == 0

Red == "Red"

Black == "Black"

TreeNode_new(value) ==
    [color |-> Red, value |-> value, left |-> None, right |-> None]

\* result of a call that can panic: the heap, the returned handle, ok
Ok(h, r) == [ok |-> TRUE, h |-> h, r |-> r]

Panic(h) == [ok |-> FALSE, h |-> h, r |-> None]

\* t, and then F on what t returned unless t panicked
Then(t, F(_)) == IF t.ok THEN F(t) ELSE t

get_color(h, node) == IF node = None THEN Black ELSE h[node].color

is_red(h, node) == get_color(h, node) = Red

is_black(h, node) == get_color(h, node) = Black

\* ------------------------------------------------------- rotations, colours
\* left_rotate without lines 382-383: the colours stay where they were
left_rotate_keepcolor(h, node) ==
    LET node_right == h[node].right IN
    IF node_right = None THEN Panic(h)
    ELSE LET temp == h[node_right].left
             h1 == [h EXCEPT ![node_right].left = node]
             h2 == [h1 EXCEPT ![node].right = temp]
         IN Ok(h2, node_right)

\* left_rotate whose line 380 hands node the right child of node_right
\* instead of its left child
left_rotate_wrong_child(h, node) ==
    LET node_right == h[node].right IN
    IF node_right = None THEN Panic(h)
    ELSE LET temp == h[node_right].right
             h1 == [h EXCEPT ![node_right].left = node]
             h2 == [h1 EXCEPT ![node].right = temp]
             h3 == [h2 EXCEPT ![node_right].color = h2[node].color]
             h4 == [h3 EXCEPT ![node].color = Red]
         IN Ok(h4, node_right)

left_rotate(h, node) ==
    LET node_right == h[node].right IN
    IF node_right = None THEN Panic(h)
    ELSE LET temp == h[node_right].left
             h1 == [h EXCEPT ![node_right].left = node]
             h2 == [h1 EXCEPT ![node].right = temp]
             h3 == [h2 EXCEPT ![node_right].color = h2[node].color]
             h4 == [h3 EXCEPT ![node].color = Red]
         IN Ok(h4, node_right)

right_rotate(h, node) ==
    LET node_left == h[node].left IN
    IF node_left = None THEN Panic(h)
    ELSE LET temp == h[node_left].right
             h1 == [h EXCEPT ![node_left].right = node]
             h2 == [h1 EXCEPT ![node].left = temp]
             h3 == [h2 EXCEPT ![node_left].color = h2[node].color]
             h4 == [h3 EXCEPT ![node].color = Red]
         IN Ok(h4, node_left)

\* a flip_color that toggles the three colours
flip_color_toggle(h, node) ==
    IF h[node].left = None THEN Panic(h)
    ELSE LET h1 == [h EXCEPT ![h[node].left].color =
                        IF h[h[node].left].color = Red THEN Black ELSE Red]
         IN
         IF h1[node].right = None THEN Panic(h1)
         ELSE LET h2 == [h1 EXCEPT ![h1[node].right].color =
                             IF h1[h1[node].right].color = Red
                             THEN Black ELSE Red]
                  h3 == [h2 EXCEPT ![node].color =
                             IF h2[node].color = Red THEN Black ELSE Red]
              IN Ok(h3, node)

flip_color(h, node) ==
    IF h[node].left = None THEN Panic(h)
    ELSE LET h1 == [h EXCEPT ![h[node].left].color = Black] IN
         IF h1[node].right = None THEN Panic(h1)
         ELSE LET h2 == [h1 EXCEPT ![h1[node].right].color = Black]
                  h3 == [h2 EXCEPT ![node].color = Red]
              IN Ok(h3, node)

\* --------------------------------------------------------------- maintain
\* the flip after a right rotation (lines 301-305 and 317-319)
maintain_after_right(temp) ==
    IF /\ is_red(temp.h, temp.h[temp.r].left)
       /\ is_red(temp.h, temp.h[temp.r].right)
    THEN flip_color(temp.h, temp.r)
    ELSE temp

\* second half of the first case: temp1 is the result of the left rotation
maintain_after_left(temp1) ==
    IF /\ is_red(temp1.h, temp1.h[temp1.r].left)
       /\ is_red(temp1.h, temp1.h[temp1.h[temp1.r].left].left)
    THEN Then(right_rotate(temp1.h, temp1.r), maintain_after_right)
    ELSE temp1

\* maintain without its third case (lines 323-326)
maintain_no_flip(h, node) ==
    IF is_red(h, h[node].right) /\ is_black(h, h[node].left)
    THEN Then(left_rotate(h, node), maintain_after_left)
    ELSE IF /\ is_red(h, h[node].left)
            /\ is_red(h, h[h[node].left].left)
         THEN Then(right_rotate(h, node), maintain_after_right)
         ELSE Ok(h, node)

maintain(h, node) ==
    IF is_red(h, h[node].right) /\ is_black(h, h[node].left)
    THEN Then(left_rotate(h, node), maintain_after_left)
    ELSE IF /\ is_red(h, h[node].left)
            /\ is_red(h, h[h[node].left].left)
         THEN Then(right_rotate(h, node), maintain_after_right)
         ELSE IF is_red(h, h[node].left) /\ is_red(h, h[node].right)
              THEN flip_color(h, node)
              ELSE Ok(h, node)

\* ------------------------------------------------------------ node_insert
\* node_insert whose comparison sends an equal key to the right
RECURSIVE node_insert_dup(_, _, _)
node_insert_dup(h, node, insert_value) ==
    IF node = None
    THEN Ok(Append(h, TreeNode_new(insert_value)), Len(h) + 1)
    ELSE LET node_value == h[node].value IN
         IF insert_value < node_value
         THEN Then(node_insert_dup(h, h[node].left, insert_value),
                   LAMBDA c : maintain([c.h EXCEPT ![node].left = c.r], node))
         ELSE Then(node_insert_dup(h, h[node].right, insert_value),
                   LAMBDA c : maintain([c.h EXCEPT ![node].right = c.r], node))

RECURSIVE node_insert(_, _, _)
node_insert(h, node, insert_value) ==
    IF node = None
    THEN Ok(Append(h, TreeNode_new(insert_value)), Len(h) + 1)
    ELSE LET node_value == h[node].value IN
         IF insert_value < node_value
         THEN Then(node_insert(h, h[node].left, insert_value),
                   LAMBDA c : maintain([c.h EXCEPT ![node].left = c.r], node))
         ELSE IF insert_value > node_value
              THEN Then(node_insert(h, h[node].right, insert_value),
                        LAMBDA c :
                            maintain([c.h EXCEPT ![node].right = c.r], node))
              ELSE maintain([h EXCEPT ![node].value = insert_value], node)

\* ------------------------------------------------ move_red_left / _right
\* lines 343-346: right.left is Red
move_red_left_rotate(f, node) ==
    Then(right_rotate(f.h, f.h[node].right),
         LAMBDA rr :
             Then(left_rotate([rr.h EXCEPT ![node].right = rr.r], node),
                  LAMBDA lr : flip_color(lr.h, lr.r)))

move_red_left(h, node) ==
    Then(flip_color(h, node),
         LAMBDA f :
             IF f.h[node].right = None THEN Panic(f.h)
             ELSE IF is_red(f.h, f.h[f.h[node].right].left)
                  THEN move_red_left_rotate(f, node)
                  ELSE Ok(f.h, node))

move_red_right(h, node) ==
    Then(flip_color(h, node),
         LAMBDA f :
             IF f.h[node].left = None THEN Panic(f.h)
             ELSE IF is_red(f.h, f.h[f.h[node].left].left)
                  THEN Then(right_rotate(f.h, node),
                            LAMBDA rr : flip_color(rr.h, rr.r))
                  ELSE Ok(f.h, node))

\* ------------------------------------------------- the read-only contract
\* get_min_value_in_children that does not descend
get_min_value_in_children_here(h, node) == h[node].value

RECURSIVE get_min_value_in_children(_, _)
get_min_value_in_children(h, node) ==
    IF h[node].left # None
    THEN get_min_value_in_children(h, h[node].left)
    ELSE h[node].value

\* get_max_value_in_children pasted from the minimum: it follows get_left
RECURSIVE get_max_value_in_children_left(_, _)
get_max_value_in_children_left(h, node) ==
    IF h[node].left # None
    THEN get_max_value_in_children_left(h, h[node].left)
    ELSE h[node].value

RECURSIVE get_max_value_in_children(_, _)
get_max_value_in_children(h, node) ==
    IF h[node].right # None
    THEN get_max_value_in_children(h, h[node].right)
    ELSE h[node].value

Max(a, b) == IF a >= b THEN a ELSE b

\* the default of CommonTreeNodeTrait (commonTrait.rs, lines 205-217),
\* which the override replaces: an absent child has height 0
RECURSIVE get_height_default(_, _)
get_height_default(h, node) ==
    LET left_height == IF h[node].left = None THEN 0
                       ELSE get_height_default(h, h[node].left)
        right_height == IF h[node].right = None THEN 0
                        ELSE get_height_default(h, h[node].right)
    IN Max(left_height, right_height) + 1

\* the override of TreeNode: an absent child has height 1
RECURSIVE get_height(_, _)
get_height(h, node) ==
    LET left_height == IF h[node].left = None THEN 1
                       ELSE get_height(h, h[node].left)
        right_height == IF h[node].right = None THEN 1
                        ELSE get_height(h, h[node].right)
    IN Max(left_height, right_height) + 1

\* the default of CommonTreeNodeTrait (commonTrait.rs, lines 189-201),
\* which the override replaces: it counts the nodes without children
RECURSIVE node_count_leaves_default(_, _)
node_count_leaves_default(h, node) ==
    LET left == h[node].left
        right == h[node].right
    IN IF left = None /\ right = None THEN 1
       ELSE IF left = None /\ right # None
            THEN node_count_leaves_default(h, right)
       ELSE IF left # None /\ right = None
            THEN node_count_leaves_default(h, left)
       ELSE node_count_leaves_default(h, right)
            + node_count_leaves_default(h, left)

\* the override of TreeNode: it counts the absent children
RECURSIVE node_count_leaves(_, _)
node_count_leaves(h, node) ==
    LET left == h[node].left
        right == h[node].right
    IN IF left = None /\ right = None THEN 2
       ELSE IF left = None /\ right # None
            THEN 1 + node_count_leaves(h, right)
       ELSE IF left # None /\ right = None
            THEN 1 + node_count_leaves(h, left)
       ELSE node_count_leaves(h, right) + node_count_leaves(h, left)

RECURSIVE node_contains(_, _, _)
node_contains(h, node, value) ==
    LET current_value == h[node].value IN
    IF current_value = value THEN TRUE
    ELSE IF current_value > value
         THEN IF h[node].left = None THEN FALSE
              ELSE node_contains(h, h[node].left, value)
         ELSE IF h[node].right = None THEN FALSE
              ELSE node_contains(h, h[node].right, value)

RECURSIVE in_order_traversal_for_test(_, _)
in_order_traversal_for_test(h, node) ==
    (IF h[node].left # None
     THEN in_order_traversal_for_test(h, h[node].left) ELSE <<>>)
    \o <<h[node].value>>
    \o (IF h[node].right # None
        THEN in_order_traversal_for_test(h, h[node].right) ELSE <<>>)

RECURSIVE pre_order_traversal_for_test(_, _)
pre_order_traversal_for_test(h, node) ==
    <<h[node].value>>
    \o (IF h[node].left # None
        THEN pre_order_traversal_for_test(h, h[node].left) ELSE <<>>)
    \o (IF h[node].right # None
        THEN pre_order_traversal_for_test(h, h[node].right) ELSE <<>>)

\* a validator that also rejects a Red node with a Red child
RECURSIVE calculate_black_height_no_red_red(_, _)
calculate_black_height_no_red_red(h, node) ==
    IF node = None THEN 1
    ELSE LET left_height ==
                 calculate_black_height_no_red_red(h, h[node].left)
             right_height ==
                 calculate_black_height_no_red_red(h, h[node].right)
         IN IF left_height = None \/ right_height = None THEN None
            ELSE IF left_height # right_height THEN None
            ELSE IF h[node].color = Red
                 THEN IF is_red(h, h[node].left) \/ is_red(h, h[node].right)
                      THEN None
                      ELSE left_height
            ELSE left_height + 1

RECURSIVE calculate_black_height(_, _)
calculate_black_height(h, node) ==
    IF node = None THEN 1
    ELSE LET left_height == calculate_black_height(h, h[node].left)
             right_height == calculate_black_height(h, h[node].right)
         IN IF left_height = None \/ right_height = None THEN None
            ELSE IF left_height # right_height THEN None
            ELSE IF h[node].color = Red THEN left_height
            ELSE left_height + 1

is_valid_red_black_tree(h, r) == calculate_black_height(h, r) # None

\* ------------------------------------------------------------ node_delete
\* the step before the descent to the left (lines 250-256)
delete_prepare_left(h, node) ==
    IF is_black(h, h[node].left)
    THEN IF h[node].left = None THEN Panic(h)
         ELSE IF is_black(h, h[h[node].left].left)
              THEN move_red_left(h, node)
              ELSE Ok(h, node)
    ELSE Ok(h, node)

\* the rotation before the descent to the right (lines 260-262)
delete_rotate_right(h, node) ==
    IF is_red(h, h[node].left) THEN right_rotate(h, node) ELSE Ok(h, node)

\* the step before the descent to the right (lines 266-272)
delete_prepare_right(h, node) ==
    IF is_black(h, h[node].right)
    THEN IF h[node].right = None THEN Panic(h)
         ELSE IF is_black(h, h[h[node].right].left)
              THEN move_red_right(h, node)
              ELSE Ok(h, node)
    ELSE Ok(h, node)

\* node_value is read once, before any rotation (line 248), and compared
\* with delete_value after them (lines 263, 273)
RECURSIVE node_delete(_, _, _)
node_delete(h, node, delete_value) ==
    IF node = None THEN Ok(h, None)
    ELSE
    LET node_value == h[node].value IN
    IF delete_value < node_value
    THEN Then(delete_prepare_left(h, node),
              LAMBDA p :
                  Then(node_delete(p.h, p.h[p.r].left, delete_value),
                       LAMBDA c :
                           maintain([c.h EXCEPT ![p.r].left = c.r], p.r)))
    ELSE Then(delete_rotate_right(h, node),
              LAMBDA q :
        IF delete_value = node_value /\ q.h[q.r].right = None
        THEN Ok(q.h, None)
        ELSE Then(delete_prepare_right(q.h, q.r),
                  LAMBDA p :
            IF delete_value = node_value
            THEN IF p.h[p.r].right = None THEN Panic(p.h)
                 ELSE LET min_value ==
                              get_min_value_in_children(p.h, p.h[p.r].right)
                      IN Then(node_delete(
                                  [p.h EXCEPT ![p.r].value = min_value],
                                  p.h[p.r].right, min_value),
                              LAMBDA c :
                                  maintain([c.h EXCEPT ![p.r].right = c.r],
                                           p.r))
            ELSE Then(node_delete(p.h, p.h[p.r].right, delete_value),
                      LAMBDA c :
                          maintain([c.h EXCEPT ![p.r].right = c.r], p.r))))

\* the recursive calls of node_delete on a left child (line 258), in the
\* order they are made: the cells at the moment of the call and the child
\* passed.  A call that panics makes no further call.
Calls(t, F(_)) == IF t.ok THEN F(t) ELSE <<>>

RECURSIVE node_delete_left_calls(_, _, _)
node_delete_left_calls(h, node, delete_value) ==
    IF node = None THEN <<>>
    ELSE
    LET node_value == h[node].value IN
    IF delete_value < node_value
    THEN Calls(delete_prepare_left(h, node),
               LAMBDA p :
                   <<[h |-> p.h, left |-> p.h[p.r].left]>>
                   \o node_delete_left_calls(p.h, p.h[p.r].left,
                                              delete_value))
    ELSE Calls(delete_rotate_right(h, node),
               LAMBDA q :
        IF delete_value = node_value /\ q.h[q.r].right = None
        THEN <<>>
        ELSE Calls(delete_prepare_right(q.h, q.r),
                   LAMBDA p :
            IF delete_value = node_value
            THEN IF p.h[p.r].right = None THEN <<>>
                 ELSE LET min_value ==
                              get_min_value_in_children(p.h, p.h[p.r].right)
                      IN node_delete_left_calls(
                             [p.h EXCEPT ![p.r].value = min_value],
                             p.h[p.r].right, min_value)
            ELSE node_delete_left_calls(p.h, p.h[p.r].right,
                                        delete_value)))

\* --------------------------------------------- FastRBTree::insert / delete
\* insert without line 144: the root keeps the colour node_insert gave it
insert_noblack(h, r, insert_value) ==
    Then(node_insert(h, r, insert_value),
         LAMBDA t : IF t.r = None THEN Panic(t.h) ELSE t)

insert(h, r, insert_value) ==
    Then(node_insert(h, r, insert_value),
         LAMBDA t : IF t.r = None THEN Panic(t.h)
                    ELSE Ok([t.h EXCEPT ![t.r].color = Black], t.r))

\* delete without the None arm of line 158: the root is unwrapped at once
delete_unguarded(h, r, delete_value) ==
    IF r = None THEN Panic(h)
    ELSE Then(node_delete(IF /\ is_black(h, h[r].left)
                             /\ is_black(h, h[r].right)
                          THEN [h EXCEPT ![r].color = Red] ELSE h,
                          r, delete_value),
              LAMBDA t : IF t.r # None
                         THEN Ok([t.h EXCEPT ![t.r].color = Black], t.r)
                         ELSE t)

delete(h, r, delete_value) ==
    IF r = None THEN Ok(h, None)
    ELSE Then(node_delete(IF /\ is_black(h, h[r].left)
                             /\ is_black(h, h[r].right)
                          THEN [h EXCEPT ![r].color = Red] ELSE h,
                          r, delete_value),
              LAMBDA t : IF t.r # None
                         THEN Ok([t.h EXCEPT ![t.r].color = Black], t.r)
                         ELSE t)

\* the left calls node_delete makes during delete
delete_left_calls(h, r, delete_value) ==
    IF r = None THEN <<>>
    ELSE node_delete_left_calls(IF /\ is_black(h, h[r].left)
                                   /\ is_black(h, h[r].right)
                                THEN [h EXCEPT ![r].color = Red] ELSE h,
                                r, delete_value)

\* ------------------------------------------------- clone, clear and Drop
\* derive(Clone) on FastRBTree clones the Option<Rc<..>> of the root: the
\* clone holds a second handle on the same root cell
clone(r) == r

RECURSIVE clear(_, _)
clear(h, node) ==
    LET h1 == IF h[node].left # None THEN clear(h, h[node].left) ELSE h
        h2 == [h1 EXCEPT ![node].left = None]
        h3 == IF h2[node].right # None THEN clear(h2, h2[node].right) ELSE h2
    IN [h3 EXCEPT ![node].right = None]

\* Drop for FastRBTree
drop(h, r) == IF r = None THEN h ELSE clear(h, r)

\* ---------------------------------------------------- the cells in use
\* The cells a tree owns are those its root reaches; a cell no handle
\* reaches any more has been freed by its Rc.  Addresses are not observable:
\* the cells of the subtree of node are laid out in pre-order after base.
RECURSIVE Cells(_, _, _)
Cells(h, node, base) ==
    IF node = None THEN <<>>
    ELSE LET l == Cells(h, h[node].left, base + 1)
             r == Cells(h, h[node].right, base + 1 + Len(l))
         IN <<[color |-> h[node].color,
               value |-> h[node].value,
               left  |-> IF h[node].left = None THEN None ELSE base + 2,
               right |-> IF h[node].right = None THEN None
                         ELSE base + 2 + Len(l)]>> \o l \o r

Handle(r) == IF r = None THEN None ELSE 1

\* ------------------------------------------------------------------ state
VARIABLES
    heap,       \* the node cells of the tree
    root,       \* FastRBTree.root
    preHeap,    \* the cells before the last call
    preRoot,    \* the root before the last call
    op,         \* the last call: "new", "insert" or "delete"
    arg,        \* the key of the last call
    panicked,   \* the last call panicked: the program is over
    keys,       \* the keys inserted and not deleted since
    ever,       \* the keys inserted at any time
    ndel,       \* the number of delete calls so far, 2 for two or more
    fresh,      \* so far: inserts of new keys, then deletes of stored keys
    mode,       \* "free": any calls; "test_insert", "tree_traversal": the
                \* calls of that test;
                \* "clone": inserts, then a clone and one call on the clone;
                \* "ordered": ascending inserts, then any calls
    idx,        \* the number of calls of the test made so far
    copy        \* <<r>>: a clone exists and r is its root; <<>>: no clone

vars == <<heap, root, preHeap, preRoot, op, arg, panicked, keys, ever,
          ndel, fresh, mode, idx, copy>>

\* the keys test::test_insert inserts, in its order
test_insert_keys ==
    <<12, 1, 9, 2, 0, 11, 7, 19, 4, 15, 18, 5, 14, 13, 10, 16, 6, 3, 8, 17>>

\* the keys test::tree_traversal inserts, in its order
tree_traversal_keys == <<0, 16, 16, 8, 24, 20, 22>>

Init ==
    /\ heap = <<>>
    /\ root = None
    /\ preHeap = <<>>
    /\ preRoot = None
    /\ op = "new"
    /\ arg = 0
    /\ panicked = FALSE
    /\ keys = {}
    /\ ever = {}
    /\ ndel = 0
    /\ fresh = TRUE
    /\ mode \in {"free", "test_insert", "tree_traversal"}
    /\ idx = 0
    /\ copy = <<>>

\* the effect of a call with result t on the tree
Returned(t) ==
    /\ preHeap' = heap
    /\ preRoot' = root
    /\ panicked' = ~t.ok
    /\ heap' = IF t.ok THEN Cells(t.h, t.r, 0) ELSE heap
    /\ root' = IF t.ok THEN Handle(t.r) ELSE root

Insert(k) ==
    /\ mode = "free"
    /\ ~panicked
    /\ Returned(insert(heap, root, k))
    /\ op' = "insert"
    /\ arg' = k
    /\ keys' = keys \cup {k}
    /\ ever' = ever \cup {k}
    /\ fresh' = (fresh /\ ndel = 0 /\ k \notin keys)
    /\ UNCHANGED <<ndel, mode, idx, copy>>

Delete(k) ==
    /\ mode = "free"
    /\ ~panicked
    /\ Returned(delete(heap, root, k))
    /\ op' = "delete"
    /\ arg' = k
    /\ keys' = keys \ {k}
    /\ ndel' = IF ndel < 2 THEN ndel + 1 ELSE 2
    /\ fresh' = (fresh /\ k \in keys)
    /\ UNCHANGED <<ever, mode, idx, copy>>

TestInsert ==
    /\ mode = "test_insert"
    /\ ~panicked
    /\ idx < Len(test_insert_keys)
    /\ Returned(insert(heap, root, test_insert_keys[idx + 1]))
    /\ op' = "insert"
    /\ arg' = test_insert_keys[idx + 1]
    /\ keys' = keys \cup {test_insert_keys[idx + 1]}
    /\ ever' = ever \cup {test_insert_keys[idx + 1]}
    /\ idx' = idx + 1
    /\ UNCHANGED <<ndel, fresh, mode, copy>>

TreeTraversal ==
    /\ mode = "tree_traversal"
    /\ ~panicked
    /\ idx < Len(tree_traversal_keys)
    /\ Returned(insert(heap, root, tree_traversal_keys[idx + 1]))
    /\ op' = "insert"
    /\ arg' = tree_traversal_keys[idx + 1]
    /\ keys' = keys \cup {tree_traversal_keys[idx + 1]}
    /\ ever' = ever \cup {tree_traversal_keys[idx + 1]}
    /\ idx' = idx + 1
    /\ UNCHANGED <<ndel, fresh, mode, copy>>

Next ==
    \/ \E k \in Keys : Insert(k)
    \/ \E k \in Keys : Delete(k)
    \/ TestInsert
    \/ TreeTraversal

Spec == Init /\ [][Next]_vars

\* --------------------------------------- a tree, its clone, and one call
InitClone ==
    /\ heap = <<>>
    /\ root = None
    /\ preHeap = <<>>
    /\ preRoot = None
    /\ op = "new"
    /\ arg = 0
    /\ panicked = FALSE
    /\ keys = {}
    /\ ever = {}
    /\ ndel = 0
    /\ fresh = TRUE
    /\ mode = "clone"
    /\ idx = 0
    /\ copy = <<>>

\* the inserts that build the tree, as in bench_compare_search
BuildInsert(k) ==
    /\ mode = "clone"
    /\ copy = <<>>
    /\ ~panicked
    /\ Returned(insert(heap, root, k))
    /\ op' = "insert"
    /\ arg' = k
    /\ keys' = keys \cup {k}
    /\ ever' = ever \cup {k}
    /\ fresh' = (fresh /\ k \notin keys)
    /\ UNCHANGED <<ndel, mode, idx, copy>>

Clone ==
    /\ mode = "clone"
    /\ copy = <<>>
    /\ ~panicked
    /\ copy' = <<clone(root)>>
    /\ op' = "clone"
    /\ preHeap' = heap
    /\ preRoot' = root
    /\ UNCHANGED <<heap, root, arg, panicked, keys, ever, ndel, fresh,
                   mode, idx>>

\* the effect of a call with result t on the clone; the tree keeps its
\* handle, the cells are the shared ones
ReturnedToCopy(t) ==
    /\ preHeap' = heap
    /\ preRoot' = root
    /\ panicked' = ~t.ok
    /\ heap' = IF t.ok THEN t.h ELSE heap
    /\ copy' = IF t.ok THEN <<t.r>> ELSE copy
    /\ UNCHANGED <<root, keys, ever, ndel, fresh, mode, idx>>

CopyInsert(k) ==
    /\ mode = "clone"
    /\ op = "clone"
    /\ ReturnedToCopy(insert(heap, copy[1], k))
    /\ op' = "copy_insert"
    /\ arg' = k

CopyDelete(k) ==
    /\ mode = "clone"
    /\ op = "clone"
    /\ ReturnedToCopy(delete(heap, copy[1], k))
    /\ op' = "copy_delete"
    /\ arg' = k

CopyDrop ==
    /\ mode = "clone"
    /\ op = "clone"
    /\ preHeap' = heap
    /\ preRoot' = root
    /\ heap' = drop(heap, copy[1])
    /\ copy' = <<>>
    /\ op' = "copy_drop"
    /\ UNCHANGED <<root, arg, panicked, keys, ever, ndel, fresh, mode, idx>>

NextClone ==
    \/ \E k \in Keys : BuildInsert(k)
    \/ Clone
    \/ \E k \in Keys : CopyInsert(k)
    \/ \E k \in Keys : CopyDelete(k)
    \/ CopyDrop

SpecClone == InitClone /\ [][NextClone]_vars

\* --------------------------------- ascending inserts, then any calls
InitOrdered ==
    /\ heap = <<>>
    /\ root = None
    /\ preHeap = <<>>
    /\ preRoot = None
    /\ op = "new"
    /\ arg = 0
    /\ panicked = FALSE
    /\ keys = {}
    /\ ever = {}
    /\ ndel = 0
    /\ fresh = TRUE
    /\ mode = "ordered"
    /\ idx = 0
    /\ copy = <<>>

\* the loop of benchmark_fast_rbt_ordered_insert: v in 0..tree_size
OrderedInsert ==
    /\ mode = "ordered"
    /\ ~panicked
    /\ idx < OrderedSize
    /\ Returned(insert(heap, root, idx))
    /\ op' = "insert"
    /\ arg' = idx
    /\ keys' = keys \cup {idx}
    /\ ever' = ever \cup {idx}
    /\ idx' = idx + 1
    /\ UNCHANGED <<ndel, fresh, mode, copy>>

\* an insert on the tree the loop has built
OrderedReinsert(k) ==
    /\ mode = "ordered"
    /\ ~panicked
    /\ idx >= OrderedSize
    /\ idx < OrderedSize + MaxCalls
    /\ Returned(insert(heap, root, k))
    /\ op' = "insert"
    /\ arg' = k
    /\ keys' = keys \cup {k}
    /\ ever' = ever \cup {k}
    /\ fresh' = (fresh /\ ndel = 0 /\ k \notin keys)
    /\ idx' = idx + 1
    /\ UNCHANGED <<ndel, mode, copy>>

\* a delete on the tree the loop has built
OrderedDelete(k) ==
    /\ mode = "ordered"
    /\ ~panicked
    /\ idx >= OrderedSize
    /\ idx < OrderedSize + MaxCalls
    /\ Returned(delete(heap, root, k))
    /\ op' = "delete"
    /\ arg' = k
    /\ keys' = keys \ {k}
    /\ ndel' = IF ndel < 2 THEN ndel + 1 ELSE 2
    /\ fresh' = (fresh /\ k \in keys)
    /\ idx' = idx + 1
    /\ UNCHANGED <<ever, mode, copy>>

NextOrdered ==
    \/ OrderedInsert
    \/ \E k \in 0..(OrderedSize - 1) : OrderedReinsert(k)
    \/ \E k \in 0..(OrderedSize - 1) : OrderedDelete(k)

SpecOrdered == InitOrdered /\ [][NextOrdered]_vars

\* ----------------------------------------------------- the tree contract
contains(h, r, value) ==
    IF r = None THEN FALSE ELSE node_contains(h, r, value)

\* Option<T>: <<>> is None, <<v>> is Some(v)
min(h, r) == IF r = None THEN <<>> ELSE <<get_min_value_in_children(h, r)>>

max(h, r) == IF r = None THEN <<>> ELSE <<get_max_value_in_children(h, r)>>

height(h, r) == IF r = None THEN 0 ELSE get_height(h, r)

count_leaves(h, r) == IF r = None THEN 0 ELSE node_count_leaves(h, r)

InOrder(h, r) ==
    IF r = None THEN <<>> ELSE in_order_traversal_for_test(h, r)

PreOrder(h, r) ==
    IF r = None THEN <<>> ELSE pre_order_traversal_for_test(h, r)

\* ------------------------------------------------ vocabulary of the claims
\* every key a call of a run can name
AllKeys ==
    Keys \cup {test_insert_keys[i] : i \in DOMAIN test_insert_keys}
         \cup {tree_traversal_keys[i] : i \in DOMAIN tree_traversal_keys}

SmallestOf(S) == CHOOSE m \in S : \A x \in S : m <= x

RECURSIVE Ascending(_)
Ascending(S) ==
    IF S = {} THEN <<>>
    ELSE <<SmallestOf(S)>> \o Ascending(S \ {SmallestOf(S)})

\* The left-leaning red-black tree of the literature, on trees as values:
\* <<>> is the empty tree and <<colour, key, left, right>> a node.  The
\* insertion descends by comparison and, on the way back up, applies at
\* every node in turn: rotate left if the right link is red and the left
\* one is not; rotate right if the left link and the one below it are red;
\* flip the colours if both links are red.
LLIsRed(t) == t # <<>> /\ t[1] = Red

LLRotateLeft(t) == <<t[1], t[4][2], <<Red, t[2], t[3], t[4][3]>>, t[4][4]>>

LLRotateRight(t) == <<t[1], t[3][2], t[3][3], <<Red, t[2], t[3][4], t[4]>>>>

LLFlip(t) ==
    <<Red, t[2], <<Black, t[3][2], t[3][3], t[3][4]>>,
                 <<Black, t[4][2], t[4][3], t[4][4]>>>>

LLFix3(t) == IF LLIsRed(t[3]) /\ LLIsRed(t[4]) THEN LLFlip(t) ELSE t

LLFix2(t) ==
    LLFix3(IF LLIsRed(t[3]) /\ LLIsRed(t[3][3]) THEN LLRotateRight(t) ELSE t)

LLFix(t) ==
    LLFix2(IF LLIsRed(t[4]) /\ ~LLIsRed(t[3]) THEN LLRotateLeft(t) ELSE t)

RECURSIVE LLPut(_, _)
LLPut(t, k) ==
    IF t = <<>> THEN <<Red, k, <<>>, <<>>>>
    ELSE IF k < t[2] THEN LLFix(<<t[1], t[2], LLPut(t[3], k), t[4]>>)
    ELSE IF k > t[2] THEN LLFix(<<t[1], t[2], t[3], LLPut(t[4], k)>>)
    ELSE LLFix(<<t[1], k, t[3], t[4]>>)

LLInsert(t, k) ==
    LET u == LLPut(t, k) IN <<Black, u[2], u[3], u[4]>>

RECURSIVE LLPreOrder(_)
LLPreOrder(t) ==
    IF t = <<>> THEN <<>>
    ELSE <<t[2]>> \o LLPreOrder(t[3]) \o LLPreOrder(t[4])

\* the tree a handle reaches, as a value
RECURSIVE TreeOf(_, _)
TreeOf(h, node) ==
    IF node = None THEN <<>>
    ELSE <<h[node].color, h[node].value,
           TreeOf(h, h[node].left), TreeOf(h, h[node].right)>>

LargestOf(S) == CHOOSE m \in S : \A x \in S : m >= x

\* the paths from node down to a node of its subtree, as handle sequences
RECURSIVE PathsFrom(_, _)
PathsFrom(h, node) ==
    IF node = None THEN {}
    ELSE {<<node>>}
         \cup {<<node>> \o p : p \in PathsFrom(h, h[node].left)}
         \cup {<<node>> \o p : p \in PathsFrom(h, h[node].right)}

\* the number of nodes on the longest of them
LongestPath(h, r) ==
    CHOOSE n \in 0..Len(h) :
        /\ \A p \in PathsFrom(h, r) : Len(p) <= n
        /\ r # None => \E p \in PathsFrom(h, r) : Len(p) = n

\* the nodes of the tree
NodesOf(h, r) == {p[Len(p)] : p \in PathsFrom(h, r)}

\* its absent child slots
AbsentSlots(h, r) ==
    {<<n, "left">> : n \in {m \in NodesOf(h, r) : h[m].left = None}}
    \cup {<<n, "right">> : n \in {m \in NodesOf(h, r) : h[m].right = None}}

\* the numbers of Black nodes on the paths from node down to an absent
\* child, the absent child counted as one
RECURSIVE BlackCounts(_, _)
BlackCounts(h, node) ==
    IF node = None THEN {1}
    ELSE {c + (IF h[node].color = Black THEN 1 ELSE 0) :
             c \in BlackCounts(h, h[node].left)
                   \cup BlackCounts(h, h[node].right)}

\* at every node of the subtree of r the two sides have one black-height
BalancedEverywhere(h, r) ==
    \A n \in NodesOf(h, r) :
        BlackCounts(h, h[n].left) = BlackCounts(h, h[n].right)

\* the subtree of r has a Red node with a Red child
HasRedRed(h, r) ==
    \E n \in NodesOf(h, r) :
        /\ h[n].color = Red
        /\ \/ h[n].left # None /\ h[h[n].left].color = Red
           \/ h[n].right # None /\ h[h[n].right].color = Red

\* the cells with the colour of r changed
Recoloured(h, r) ==
    [h EXCEPT ![r].color = IF h[r].color = Red THEN Black ELSE Red]

\* the cells with every key replaced by one key
Rekeyed(h) == [i \in DOMAIN h |-> [h[i] EXCEPT !.value = 0]]

\* the roots a caller can pass: the root, a node get_left and get_right
\* lead to, or None
Roots(h, r) == NodesOf(h, r) \cup {None}

\* the shapes maintain repairs, at node n
RedRightBlackLeft(h, n) ==
    h[n].right # None /\ h[h[n].right].color = Red
    /\ (h[n].left = None \/ h[h[n].left].color = Black)

RedLeftRedLeftLeft(h, n) ==
    /\ h[n].left # None /\ h[h[n].left].color = Red
    /\ h[h[n].left].left # None /\ h[h[h[n].left].left].color = Red

BothChildrenRed(h, n) ==
    /\ h[n].left # None /\ h[h[n].left].color = Red
    /\ h[n].right # None /\ h[h[n].right].color = Red

\* a Red node that is not the left child of a node
RedNotLeftChild(h, r) ==
    \E n \in NodesOf(h, r) :
        /\ h[n].color = Red
        /\ \A m \in NodesOf(h, r) : h[m].left # n

\* the cells and the root the last call returned with, before the cells
\* no handle reaches are freed
LastResult ==
    IF op = "insert" THEN insert(preHeap, preRoot, arg)
    ELSE delete(preHeap, preRoot, arg)

\* the child links among the cells of S: <<parent, side, child>>
Links(h, S) ==
    {<<n, "left", h[n].left>> : n \in {m \in S : h[m].left # None}}
    \cup {<<n, "right", h[n].right>> : n \in {m \in S : h[m].right # None}}

\* the cells n steps of links lead to from the cells of S
RECURSIVE Within(_, _, _)
Within(h, S, n) ==
    IF n = 0 THEN S
    ELSE Within(h, S \cup {l[3] : l \in Links(h, S)}, n - 1)

\* the cells r reaches, and the proper descendants of a cell
Reached(h, r) == IF r = None THEN {} ELSE Within(h, {r}, Len(h))

DescendantsOf(h, n) == Within(h, {l[3] : l \in Links(h, {n})}, Len(h))

\* the cells r reaches form a tree
ProperTree(h, r) ==
    /\ \A l1, l2 \in Links(h, Reached(h, r)) : l1[3] = l2[3] => l1 = l2
    /\ \A n \in Reached(h, r) : n \notin DescendantsOf(h, n)

\* the cells with the colours of a, b and c set
Coloured(h, a, ca, b, cb, c, cc) ==
    [i \in DOMAIN h |->
        [h[i] EXCEPT !.color = IF i = a THEN ca
                               ELSE IF i = b THEN cb
                               ELSE IF i = c THEN cc
                               ELSE h[i].color]]

\* t is what a rotation of n towards side "to" must return from the cells
\* h: the child c on the other side on top, n below it on side "to", the
\* inner subtree of c handed to n, c with the colour of n and n Red
RotatedAs(h, n, to, from, t) ==
    LET c == h[n][from] IN
    /\ t.ok
    /\ t.r = c
    /\ t.h[c][to] = n
    /\ t.h[n][from] = h[c][to]
    /\ t.h[c].color = h[n].color
    /\ t.h[n].color = Red
    /\ t.h[c][from] = h[c][from]
    /\ t.h[n][to] = h[n][to]
    /\ t.h[c].value = h[c].value
    /\ t.h[n].value = h[n].value
    /\ DOMAIN t.h = DOMAIN h
    /\ \A i \in DOMAIN h \ {n, c} : t.h[i] = h[i]
    /\ in_order_traversal_for_test(t.h, t.r)
           = in_order_traversal_for_test(h, n)

\* t is what flip_color of n must return from the cells h
FlippedAs(h, n, t) ==
    /\ t.ok
    /\ t.r = n
    /\ t.h[h[n].left].color = Black
    /\ t.h[h[n].right].color = Black
    /\ t.h[n].color = Red
    /\ DOMAIN t.h = DOMAIN h
    /\ \A i \in DOMAIN h :
           t.h[i] = [h[i] EXCEPT !.color = t.h[i].color]
    /\ \A i \in DOMAIN h \ {n, h[n].left, h[n].right} : t.h[i] = h[i]

RECURSIVE FloorLog2(_)
FloorLog2(n) == IF n <= 1 THEN 0 ELSE 1 + FloorLog2(n \div 2)

\* the colours of the nodes, in pre-order
RECURSIVE ColoursOf(_, _)
ColoursOf(h, node) ==
    IF node = None THEN <<>>
    ELSE <<h[node].color>> \o ColoursOf(h, h[node].left)
                          \o ColoursOf(h, h[node].right)

Without(s, k) == SelectSeq(s, LAMBDA x : x # k)

RECURSIVE ValuesOf(_, _)
ValuesOf(h, node) ==
    IF node = None THEN {}
    ELSE {h[node].value} \cup ValuesOf(h, h[node].left)
                         \cup ValuesOf(h, h[node].right)

RECURSIVE Ordered(_, _)
Ordered(h, node) ==
    \/ node = None
    \/ /\ \A v \in ValuesOf(h, h[node].left) : v < h[node].value
       /\ \A v \in ValuesOf(h, h[node].right) : v > h[node].value
       /\ Ordered(h, h[node].left)
       /\ Ordered(h, h[node].right)

\* C1: after any calls of insert and delete on a tree that was empty,
\* contains is true of every key inserted and not deleted since, and false
\* of every key never inserted.
C1_Membership ==
    ~panicked =>
        \A k \in AllKeys :
            /\ k \in keys => contains(heap, root, k)
            /\ k \notin ever => ~contains(heap, root, k)

\* C2: on a tree built by inserts only, delete(k) of a stored key k removes
\* exactly k: contains(k) is false afterwards and the in-order traversal is
\* the one before the call with k taken out.
C2_DeleteRemovesExactlyK ==
    (op = "delete" /\ ndel = 1 /\ contains(preHeap, preRoot, arg))
    => /\ ~panicked
       /\ ~contains(heap, root, arg)
       /\ InOrder(heap, root) = Without(InOrder(preHeap, preRoot), arg)

\* C3: after every delete call that returns, is_valid_red_black_tree(root)
\* is true.
C3_ValidAfterDelete ==
    (op = "delete" /\ ~panicked) => is_valid_red_black_tree(heap, root)

\* C4: after every insert of a run of inserts only from the empty tree (the
\* 20 keys of test_insert among them) is_valid_red_black_tree(root) is true.
C4_ValidAfterInsert ==
    (op = "insert" /\ ndel = 0)
    => (~panicked /\ is_valid_red_black_tree(heap, root))

C4_Witness ==
    /\ mode = "test_insert"
    /\ idx = Len(test_insert_keys)
    /\ op = "insert"
    /\ ~panicked
    /\ Len(heap) = Len(test_insert_keys)
    /\ is_valid_red_black_tree(heap, root)

\* C5: after inserts only, with or without repeated keys, the in-order
\* traversal is the strictly ascending sequence of the distinct keys inserted.
C5_InOrderAscending ==
    ndel = 0 => (~panicked /\ InOrder(heap, root) = Ascending(ever))

C5_Witness ==
    /\ ndel = 0
    /\ op = "insert"
    /\ ~panicked
    /\ contains(preHeap, preRoot, arg)
    /\ Len(InOrder(heap, root)) >= 3
    /\ InOrder(heap, root) = Ascending(ever)

\* C6: after every completed insert or delete the keys of the left subtree
\* of every node are smaller than its key and those of its right subtree
\* larger.
C6_BSTOrdering == ~panicked => Ordered(heap, root)

C6_Witness ==
    /\ op = "delete"
    /\ ~panicked
    /\ \E i \in DOMAIN preHeap :
          preHeap[i].value = arg /\ preHeap[i].right # None
    /\ Len(heap) >= 3
    /\ Len(heap) < Len(preHeap)
    /\ Ordered(heap, root)

\* C7: delete(k) of a key that a non-empty tree does not store is a no-op:
\* the call returns, contains answers as before for every key, the number of
\* keys is unchanged and is_valid_red_black_tree is true.
C7_AbsentDeleteNoOp ==
    (op = "delete" /\ preRoot # None /\ ~contains(preHeap, preRoot, arg))
    => /\ ~panicked
       /\ \A k \in AllKeys :
             contains(heap, root, k) = contains(preHeap, preRoot, k)
       /\ Len(InOrder(heap, root)) = Len(InOrder(preHeap, preRoot))
       /\ is_valid_red_black_tree(heap, root)

\* C8: no call panics, whatever the key and the tree.
C8_NoPanic == ~panicked

\* C9: inserting N distinct keys into an empty tree and then deleting all N
\* of them, in any order, leaves an empty tree: min() and max() are None.
C9_DeleteAllEmpties ==
    (fresh /\ ndel > 0 /\ keys = {})
    => /\ ~panicked
       /\ min(heap, root) = <<>>
       /\ max(heap, root) = <<>>

\* C10: after every completed insert or delete the root, if present, is
\* Black.
C10_RootBlack ==
    (~panicked /\ root # None) => heap[root].color = Black

C10_Witness ==
    /\ op = "delete"
    /\ ~panicked
    /\ preRoot # None
    /\ is_black(preHeap, preHeap[preRoot].left)
    /\ is_black(preHeap, preHeap[preRoot].right)
    /\ root # None
    /\ Len(heap) >= 2
    /\ heap[root].color = Black

\* C11: insert(k) on a tree that stores k creates no second node and changes
\* no structure: the number of nodes, the in-order traversal and the
\* pre-order traversal are the same after the call as before it.
C11_ReinsertNoChange ==
    (op = "insert" /\ contains(preHeap, preRoot, arg))
    => /\ ~panicked
       /\ Len(heap) = Len(preHeap)
       /\ InOrder(heap, root) = InOrder(preHeap, preRoot)
       /\ PreOrder(heap, root) = PreOrder(preHeap, preRoot)

\* C12: clone() is a deep copy: an insert into the clone, a delete from the
\* clone, or the drop of the clone leaves the in-order traversal, the
\* pre-order traversal and the colours of the tree as they were.
C12_CloneIsDeep ==
    (op \in {"copy_insert", "copy_delete", "copy_drop"} /\ ~panicked)
    => /\ InOrder(heap, root) = InOrder(preHeap, preRoot)
       /\ PreOrder(heap, root) = PreOrder(preHeap, preRoot)
       /\ ColoursOf(heap, root) = ColoursOf(preHeap, preRoot)

\* C13: inserting 0, 16, 16, 8, 24, 20, 22 into an empty tree gives the
\* pre-order traversal [20, 8, 0, 16, 24, 22]; and every insert of a run of
\* inserts yields the tree, hence the pre-order traversal, that the
\* left-leaning red-black insertion yields from the tree before the call.
C13_PreOrderIsLeftLeaning ==
    /\ (mode = "tree_traversal" /\ idx = Len(tree_traversal_keys))
       => PreOrder(heap, root) = <<20, 8, 0, 16, 24, 22>>
    /\ (op = "insert" /\ ndel = 0)
       => /\ ~panicked
          /\ TreeOf(heap, root) = LLInsert(TreeOf(preHeap, preRoot), arg)
          /\ PreOrder(heap, root) =
                 LLPreOrder(LLInsert(TreeOf(preHeap, preRoot), arg))

C13_Witness ==
    /\ mode = "tree_traversal"
    /\ idx = Len(tree_traversal_keys)
    /\ op = "insert"
    /\ ~panicked
    /\ PreOrder(heap, root) = <<20, 8, 0, 16, 24, 22>>
    /\ PreOrder(heap, root) # PreOrder(preHeap, preRoot)

\* C14: after any inserts and deletes that leave n >= 1 keys,
\* height() <= 2 * floor(log2(n + 1)) + 1.
C14_LogarithmicHeight ==
    (~panicked /\ root # None)
    => height(heap, root) <= 2 * FloorLog2(Len(heap) + 1) + 1

\* C15: after any inserts and deletes min() is the smallest key stored in
\* the tree and max() the largest, the first and the last element of the
\* in-order traversal; both are None exactly when the tree is empty.
C15_MinMax ==
    ~panicked =>
        /\ (min(heap, root) = <<>>) = (InOrder(heap, root) = <<>>)
        /\ (max(heap, root) = <<>>) = (InOrder(heap, root) = <<>>)
        /\ InOrder(heap, root) # <<>> =>
               /\ min(heap, root) = <<SmallestOf(ValuesOf(heap, root))>>
               /\ max(heap, root) = <<LargestOf(ValuesOf(heap, root))>>
               /\ min(heap, root) = <<Head(InOrder(heap, root))>>
               /\ max(heap, root) =
                      <<InOrder(heap, root)[Len(InOrder(heap, root))]>>

C15_Witness ==
    /\ ~panicked
    /\ op = "delete"
    /\ Len(heap) >= 3
    /\ min(heap, root) # <<heap[root].value>>
    /\ max(heap, root) # <<heap[root].value>>
    /\ max(heap, root) = <<LargestOf(ValuesOf(heap, root))>>

\* C16: height() is 0 for the empty tree and otherwise 1 plus the number of
\* nodes on the longest path from the root down to a node; it is 2 for a
\* tree of one key and 3 for a tree of two keys.
C16_Height ==
    ~panicked =>
        /\ root = None => height(heap, root) = 0
        /\ root # None => height(heap, root) = 1 + LongestPath(heap, root)
        /\ Len(InOrder(heap, root)) = 1 => height(heap, root) = 2
        /\ Len(InOrder(heap, root)) = 2 => height(heap, root) = 3

C16_Witness ==
    /\ ~panicked
    /\ Len(InOrder(heap, root)) >= 4
    /\ heap[root].right # None
    /\ get_height(heap, heap[root].left) > get_height(heap, heap[root].right)
    /\ height(heap, root) = 1 + LongestPath(heap, root)

\* C17: count_leaves() is 0 for the empty tree and otherwise the number of
\* absent child slots, which is one more than the number of nodes (2, 3 and
\* 4 for one, two and three keys).
C17_CountLeaves ==
    ~panicked =>
        /\ root = None => count_leaves(heap, root) = 0
        /\ root # None =>
               /\ count_leaves(heap, root)
                      = Cardinality(AbsentSlots(heap, root))
               /\ count_leaves(heap, root)
                      = Cardinality(NodesOf(heap, root)) + 1
        /\ \A n \in 1..3 :
               Len(InOrder(heap, root)) = n => count_leaves(heap, root) = n + 1

C17_Witness ==
    /\ ~panicked
    /\ Len(InOrder(heap, root)) >= 4
    /\ \E n \in NodesOf(heap, root) :
           (heap[n].left = None) # (heap[n].right = None)
    /\ \E n \in NodesOf(heap, root) :
           heap[n].left # None /\ heap[n].right # None
    /\ count_leaves(heap, root) = Len(InOrder(heap, root)) + 1

\* C18: is_valid_red_black_tree(root) is true exactly when at every node of
\* the tree the black-height of the left subtree equals that of the right
\* subtree (absent child 1, Black adds 1, Red adds 0); the result does not
\* depend on the keys, on the colour of the root, or on a Red node having a
\* Red child.  The inputs are the subtrees of the tree, as they are and with
\* the colour of one node changed.
C18_ValidatorIsBlackBalance ==
    ~panicked =>
        \A n \in Roots(heap, root) :
            /\ is_valid_red_black_tree(heap, n) = BalancedEverywhere(heap, n)
            /\ is_valid_red_black_tree(Rekeyed(heap), n)
                   = is_valid_red_black_tree(heap, n)
            /\ n # None =>
                   is_valid_red_black_tree(Recoloured(heap, n), n)
                       = is_valid_red_black_tree(heap, n)
            /\ \A m \in NodesOf(heap, root) :
                   is_valid_red_black_tree(Recoloured(heap, m), n)
                       = BalancedEverywhere(Recoloured(heap, m), n)

\* a tree with a Red node that has a Red child is accepted, a tree whose
\* mismatch is at a node below the root is rejected, and a Red root is
\* accepted
C18_Witness ==
    /\ ~panicked
    /\ \E n \in NodesOf(heap, root) :
           /\ HasRedRed(Recoloured(heap, n), n)
           /\ is_valid_red_black_tree(Recoloured(heap, n), n)
    /\ \E k \in NodesOf(heap, root) :
           \E m \in NodesOf(heap, root) \ {root} :
               /\ BlackCounts(Recoloured(heap, k), heap[m].left)
                      # BlackCounts(Recoloured(heap, k), heap[m].right)
               /\ ~is_valid_red_black_tree(Recoloured(heap, k), root)
    /\ \E n \in NodesOf(heap, root) :
           heap[n].color = Red /\ is_valid_red_black_tree(heap, n)

\* C19: on an empty tree contains(k) is false for every k, min() and max()
\* are None, is_valid_red_black_tree(None) is true, and delete(k) returns
\* and leaves the tree empty.
C19_EmptyTree ==
    /\ (~panicked /\ root = None) =>
           /\ \A k \in AllKeys : ~contains(heap, root, k)
           /\ min(heap, root) = <<>>
           /\ max(heap, root) = <<>>
           /\ is_valid_red_black_tree(heap, root)
    /\ (op = "delete" /\ preRoot = None) =>
           /\ ~panicked
           /\ root = None
           /\ heap = <<>>

C19_Witness ==
    /\ op = "delete"
    /\ preRoot = None
    /\ ever # {}
    /\ ~panicked
    /\ root = None
    /\ min(heap, root) = <<>>

\* C20: after every completed insert or delete no node of the tree shows a
\* shape maintain repairs (a Red right child with a Black left child, a Red
\* left child whose left child is Red, two Red children); hence every Red
\* node is a left child and no Red node has a Red child.
C20_NoShapeLeft ==
    (op \in {"insert", "delete"} /\ ~panicked) =>
        /\ \A n \in NodesOf(heap, root) :
               /\ ~RedRightBlackLeft(heap, n)
               /\ ~RedLeftRedLeftLeft(heap, n)
               /\ ~BothChildrenRed(heap, n)
        /\ ~RedNotLeftChild(heap, root)
        /\ ~HasRedRed(heap, root)

\* C21: during a delete on a tree built by inserts, whenever node_delete
\* recurses into the left child of a node, that child or its own left child
\* is Red at the moment of the call.
C21_RedPushedDown ==
    (op = "delete" /\ ndel = 1) =>
        LET calls == delete_left_calls(preHeap, preRoot, arg) IN
        \A i \in DOMAIN calls :
            \/ is_red(calls[i].h, calls[i].left)
            \/ /\ calls[i].left # None
               /\ is_red(calls[i].h, calls[i].h[calls[i].left].left)

\* C22: after every completed insert or delete on a single tree the nodes
\* the root reaches form a proper tree: no node is the child of two nodes or
\* both the left and the right child of one node, and no node is its own
\* descendant.
C22_ProperTree ==
    (op \in {"insert", "delete"} /\ ~panicked) =>
        /\ LastResult.ok
        /\ ProperTree(LastResult.h, LastResult.r)
        /\ ProperTree(heap, root)

C22_Witness ==
    /\ op = "delete"
    /\ ~panicked
    /\ ndel = 2
    /\ Len(heap) >= 3
    /\ heap[root].value # preHeap[preRoot].value
    /\ Len(LastResult.h) > Len(heap)
    /\ ProperTree(LastResult.h, LastResult.r)

\* C23: left_rotate(n), for a node n with a right child r, returns r with
\* r.left = n and n.right = the old left child of r, r with the colour n had
\* and n Red; right_rotate is the mirror image; both keep the in-order key
\* sequence of the subtree; flip_color(n) makes both children of n Black and
\* n Red whatever the three colours were.  The inputs are the nodes of the
\* tree, with every colouring of the nodes involved.
C23_RotationsAndFlip ==
    ~panicked =>
        \A n \in NodesOf(heap, root) :
            \A cn, cl, cr \in {Red, Black} :
                LET h == Coloured(heap, n, cn, heap[n].left, cl,
                                  heap[n].right, cr)
                IN /\ h[n].right # None =>
                          RotatedAs(h, n, "left", "right", left_rotate(h, n))
                   /\ h[n].left # None =>
                          RotatedAs(h, n, "right", "left", right_rotate(h, n))
                   /\ (h[n].left # None /\ h[n].right # None) =>
                          FlippedAs(h, n, flip_color(h, n))

C23_Witness ==
    /\ ~panicked
    /\ \E n \in NodesOf(heap, root) \ {root} :
           /\ heap[n].left # None
           /\ heap[n].right # None
           /\ heap[heap[n].right].left # None
           /\ heap[heap[n].left].right # None
           /\ heap[n].color = Black
           /\ heap[heap[n].left].color = Red
           /\ left_rotate(heap, n).h[n].right = heap[heap[n].right].left
           /\ right_rotate(heap, n).h[n].left = heap[heap[n].left].right
           /\ flip_color(heap, n).h[heap[n].left].color = Black
           /\ flip_color(heap, n).h[n].color = Red

====
